---- MODULE Spec2Model ----
(***************************************************************************)
(* Pipeline execution and telemetry engine of balance-category-pipeline:   *)
(* DataPipeline.run, QualityAnalysisCommand and                            *)
(* AIRemoteCategorizationCommand (analyzer/pipeline/pipeline_commands.py), *)
(* the telemetry model, MetadataCollector and MetadataRepository           *)
(* (analyzer/pipeline/metadata.py).  Each component has a specification of *)
(* its own over the shared variables: Spec, SpecRepo, SpecCollector,       *)
(* SpecRerun (one pipeline run repeatedly), SpecQuality, SpecAi; the       *)
(* quality calculators                                                     *)
(* (analyzer/pipeline/quality.py) have SpecCalc.                           *)
(*                                                                         *)
(* Optional values (Python None or a value) are sequences of length <= 1:  *)
(* None is <<>>, a present value v is <<v>>.  Durations are integers in    *)
(* microseconds.                                                           *)
(***************************************************************************)
EXTENDS Integers, Sequences, FiniteSets, TLC

(* ---------------------------- bounds ------------------------------------ *)
MaxRecords == 3      \* PipelineMetadata objects constructed in a repository session
MaxSteps == 1        \* add_step calls in a repository session
MaxCmds == 2         \* length of DataPipeline.commands
MaxRuns == 1         \* calls of DataPipeline.run on one pipeline instance
MaxReruns == 2       \* calls of DataPipeline.run on a pipeline instance that is run repeatedly
MaxRows == 1         \* rows of a DataFrame
MaxCollectors == 2   \* MetadataCollector objects constructed in a collector session
MaxTracked == 2      \* steps a collector session hands to one record
MaxClock == 5        \* readings of datetime.now() in a collector session
MaxQualityRows == 2  \* rows of a DataFrame handed to QualityAnalysisCommand
MaxAiRows == 4       \* rows of a DataFrame handed to AIRemoteCategorizationCommand
MaxBatchSize == 2    \* batch_size of AIRemoteCategorizationCommand
MaxErrors == 2       \* max_errors of AIRemoteCategorizationCommand
MaxScoreRows == 2    \* rows of a DataFrame handed to a QualityCalculator

(* ---------------------------- values ------------------------------------ *)
None == <<>>

Some(v) == <<v>>

IsNone(o) == o = <<>>

\* run ids are strings; a string is a sequence of character codes
IdAlphabet == {1, 2}

RunIdPool == {<<a>> : a \in IdAlphabet} \cup {<<a, b>> : a \in IdAlphabet, b \in {2}}

\* Python's str ordering: code point by code point, a proper prefix first
RECURSIVE StrLess(_, _)
StrLess(a, b) ==
    IF b = <<>> THEN FALSE
    ELSE IF a = <<>> THEN TRUE
    ELSE IF Head(a) # Head(b) THEN Head(a) < Head(b)
    ELSE StrLess(Tail(a), Tail(b))

\* datetime.isoformat(): the microsecond part is omitted when it is zero
isoformat(dt) == IF dt.usec = 0 THEN <<dt.sec>> ELSE <<dt.sec, dt.usec>>

\* datetime.fromisoformat()
fromisoformat(s) == IF Len(s) = 1 THEN [sec |-> s[1], usec |-> 0]
                    ELSE [sec |-> s[1], usec |-> s[2]]

\* (end_time - start_time).total_seconds(), in microseconds
total_seconds(a, b) == (b.sec - a.sec) * 1000000 + (b.usec - a.usec)

\* parameter / context maps: string keys to string values, as sets of pairs
EmptyMap == {}

(* ------------------------ StepMetadata ---------------------------------- *)
\* StepMetadata.__init__
StepMetadata(name, input_rows, output_rows, duration, start_time, end_time, parameters) ==
    [name |-> name,
     input_rows |-> input_rows,
     output_rows |-> output_rows,
     start_time |-> start_time,
     end_time |-> end_time,
     parameters |-> IF IsNone(parameters) THEN EmptyMap ELSE parameters[1],
     duration |-> IF ~IsNone(duration) THEN duration
                  ELSE IF ~IsNone(start_time) /\ ~IsNone(end_time)
                       THEN Some(total_seconds(start_time[1], end_time[1]))
                       ELSE None]

\* StepMetadata.to_dict
StepToDict(step) ==
    [name |-> step.name,
     input_rows |-> step.input_rows,
     output_rows |-> step.output_rows,
     duration |-> step.duration,
     start_time |-> IF ~IsNone(step.start_time) THEN Some(isoformat(step.start_time[1])) ELSE None,
     end_time |-> IF ~IsNone(step.end_time) THEN Some(isoformat(step.end_time[1])) ELSE None,
     parameters |-> step.parameters]

(* ------------------------ PipelineMetadata ------------------------------ *)
\* PipelineMetadata.__init__; uuid is the value str(uuid.uuid4()) produced
PipelineMetadata(pipeline_name, start_time, end_time, quality_index, context_files, uuid) ==
    [pipeline_name |-> pipeline_name,
     start_time |-> start_time,
     end_time |-> end_time,
     run_id |-> uuid,
     steps |-> <<>>,
     quality_index |-> quality_index,
     context_files |-> context_files,
     input_rows |-> None,
     output_rows |-> None]

\* variant of add_step that keeps the output_rows of the first step
add_step_output_of_first(md, step) ==
    LET appended == Append(md.steps, step) IN
    [md EXCEPT !.steps = appended,
               !.input_rows = IF Len(appended) = 0 \/ Len(appended) = 1
                              THEN Some(step.input_rows) ELSE @,
               !.output_rows = IF Len(appended) = 1 THEN Some(step.output_rows) ELSE @]

\* PipelineMetadata.add_step
add_step(md, step) ==
    LET appended == Append(md.steps, step) IN
    [md EXCEPT !.steps = appended,
               !.input_rows = IF Len(appended) = 0 \/ Len(appended) = 1
                              THEN Some(step.input_rows) ELSE @,
               !.output_rows = Some(step.output_rows)]

\* PipelineMetadata.total_duration
total_duration(md) == total_seconds(md.start_time, md.end_time)

\* PipelineMetadata.to_dict
to_dict(md) ==
    [pipeline_name |-> md.pipeline_name,
     run_id |-> md.run_id,
     start_time |-> isoformat(md.start_time),
     end_time |-> isoformat(md.end_time),
     total_duration |-> total_duration(md),
     input_rows |-> md.input_rows,
     output_rows |-> md.output_rows,
     quality_index |-> md.quality_index,
     context_files |-> md.context_files,
     steps |-> [k \in 1..Len(md.steps) |-> StepToDict(md.steps[k])]]

(* ------------------------ MetadataRepository ---------------------------- *)
\* the storage directory: whether it exists, and its <run_id>.json files
EmptyStorage == [dir |-> FALSE, files |-> <<>>]

\* the id load's PipelineMetadata(...) call draws; load overwrites it at once
Scratch == <<>>

\* file_path.exists() for storage_path / f"{run_id}.json"
FileExists(st, run_id) == st.dir /\ run_id \in DOMAIN st.files

\* variant of save that leaves an existing <run_id>.json as it is
save_keeps_existing(st, md) ==
    [dir |-> TRUE,
     files |-> [id \in (DOMAIN st.files) \cup {md.run_id} |->
                   IF id \in DOMAIN st.files THEN st.files[id] ELSE to_dict(md)]]

\* MetadataRepository.save: the storage after the call
save(st, md) ==
    [dir |-> TRUE,
     files |-> [id \in (DOMAIN st.files) \cup {md.run_id} |->
                   IF id = md.run_id THEN to_dict(md) ELSE st.files[id]]]

\* MetadataRepository.save: the value returned
save_returns(md) == md.run_id

\* the step loop of MetadataRepository.load
RECURSIVE load_steps(_, _)
load_steps(pipeline, step_dicts) ==
    IF step_dicts = <<>> THEN pipeline
    ELSE LET sd == Head(step_dicts)
             step == StepMetadata(sd.name, sd.input_rows, sd.output_rows, sd.duration,
                        IF ~IsNone(sd.start_time) THEN Some(fromisoformat(sd.start_time[1])) ELSE None,
                        IF ~IsNone(sd.end_time) THEN Some(fromisoformat(sd.end_time[1])) ELSE None,
                        Some(sd.parameters))
         IN load_steps(add_step(pipeline, step), Tail(step_dicts))

\* variant of load that tests the directory, not the file, before opening it
load_checks_dir_only(st, run_id, uuid) ==
    IF ~st.dir THEN None
    ELSE IF run_id \notin DOMAIN st.files THEN <<"FileNotFoundError">>
    ELSE Some(load_steps([PipelineMetadata(st.files[run_id].pipeline_name,
                              fromisoformat(st.files[run_id].start_time),
                              fromisoformat(st.files[run_id].end_time),
                              st.files[run_id].quality_index, None, uuid)
                          EXCEPT !.run_id = st.files[run_id].run_id,
                                 !.input_rows = st.files[run_id].input_rows,
                                 !.output_rows = st.files[run_id].output_rows],
                         st.files[run_id].steps))

\* MetadataRepository.load: None, or the reconstructed PipelineMetadata;
\* uuid is the id the constructor draws before run_id is overwritten
load(st, run_id, uuid) ==
    IF ~FileExists(st, run_id) THEN None
    ELSE LET data == st.files[run_id]
             fresh == PipelineMetadata(data.pipeline_name,
                                       fromisoformat(data.start_time),
                                       fromisoformat(data.end_time),
                                       data.quality_index, None, uuid)
             pipeline == [fresh EXCEPT !.run_id = data.run_id,
                                       !.input_rows = data.input_rows,
                                       !.output_rows = data.output_rows]
         IN Some(load_steps(pipeline, data.steps))

\* sorted(): insertion of one string into a sorted list
RECURSIVE InsertSorted(_, _)
InsertSorted(x, s) ==
    IF s = <<>> THEN <<x>>
    ELSE IF StrLess(Head(s), x) THEN <<Head(s)>> \o InsertSorted(x, Tail(s))
    ELSE <<x>> \o s

RECURSIVE sorted(_)
sorted(s) == IF s = <<>> THEN <<>> ELSE InsertSorted(Head(s), sorted(Tail(s)))

\* the orders in which storage_path.glob("*.json") may yield the files
GlobOrders(st) ==
    LET ids == DOMAIN st.files
        n == Cardinality(ids)
    IN {s \in [1..n -> ids] : \A i, j \in 1..n : i # j => s[i] # s[j]}

\* variant of list_runs that returns the ids in directory order
list_runs_unsorted(st, globbed) ==
    IF ~st.dir THEN <<>>
    ELSE [k \in 1..Len(globbed) |-> globbed[k]]

\* MetadataRepository.list_runs for one enumeration order of the directory
list_runs(st, globbed) ==
    IF ~st.dir THEN <<>>
    ELSE sorted([k \in 1..Len(globbed) |-> globbed[k]])


(* ------------------------ values commands exchange ---------------------- *)
\* what command.process may hand back: None, a DataFrame (known by its row
\* count) or a CommandResult; every value carries the same fields
NoneValue ==
    [kind |-> "None", rows |-> 0, return_code |-> 0, data |-> None, error |-> None,
     context_updates |-> None, metadata_updates |-> None]

DataFrame(n) ==
    [kind |-> "DataFrame", rows |-> n, return_code |-> 0, data |-> None, error |-> None,
     context_updates |-> None, metadata_updates |-> None]

\* CommandResult with all five fields: data is an optional DataFrame row
\* count, error an optional message, the updates optional maps
CommandResultFull(return_code, data, error, context_updates, metadata_updates) ==
    [kind |-> "CommandResult", rows |-> 0, return_code |-> return_code, data |-> data,
     error |-> error, context_updates |-> context_updates,
     metadata_updates |-> metadata_updates]

\* CommandResult(return_code, data, error): the updates default to None
CommandResult(return_code, data, error) ==
    CommandResultFull(return_code, data, error, None, None)

\* the error a failing or warning command reports
SimulatedFailure == Some("simulated failure")

Datasets == {NoneValue} \cup {DataFrame(n) : n \in 0..MaxRows}

\* successful results that carry context_updates and metadata_updates; the
\* two write the same keys with different values
FirstWriter ==
    CommandResultFull(0, Some(MaxRows), None,
                      Some({<<"categories", "candidate_categories.json">>}),
                      Some({<<"quality_index", 92>>}))

SecondWriter ==
    CommandResultFull(0, Some(0), None,
                      Some({<<"categories", "other_categories.json">>}),
                      Some({<<"quality_index", 61>>}))

\* the values commands return: bare datasets (the commands of
\* pipeline_commands.py) and CommandResults that halt (negative, with or
\* without data), succeed (0, with updates) or warn (positive)
Results ==
    Datasets
    \cup {CommandResult(-1, d, SimulatedFailure) : d \in {None, Some(MaxRows)}}
    \cup {FirstWriter, SecondWriter}
    \cup {CommandResult(1, Some(MaxRows), SimulatedFailure)}

\* len(df) if isinstance(df, pd.DataFrame) else 0
RowsOf(v) == IF v.kind = "DataFrame" THEN v.rows ELSE 0

\* time.time() - start, in microseconds
Elapsed == {1500}

\* str(uuid.uuid4()) in a pipeline run: an id no earlier call produced
uuid4(used) == CHOOSE id \in RunIdPool : id \notin used

\* datetime.now()
now(t) == [sec |-> t, usec |-> 0]

\* command.__class__.__name__ of the commands a pipeline may hold, by position
CommandNames == <<"AppendFilesCommand", "CleanDataCommand", "SaveFileCommand">>

(* ------------------------ MetadataCollector ----------------------------- *)
\* variant of start_pipeline that empties the steps of a record it finds
start_pipeline_clearing_steps(pm, pipeline_name, t, uuid) ==
    IF IsNone(pm) THEN Some(PipelineMetadata(pipeline_name, now(t), now(t), None, None, uuid))
    ELSE Some([pm[1] EXCEPT !.steps = <<>>])

\* variant of start_pipeline that replaces a record the collector already holds
start_pipeline_always_new(pm, pipeline_name, t, uuid) ==
    Some(PipelineMetadata(pipeline_name, now(t), now(t), None, None, uuid))

\* MetadataCollector.start_pipeline
start_pipeline(pm, pipeline_name, t, uuid) ==
    IF IsNone(pm) THEN Some(PipelineMetadata(pipeline_name, now(t), now(t), None, None, uuid))
    ELSE pm

\* MetadataCollector.end_pipeline
end_pipeline(pm, t) ==
    IF ~IsNone(pm) THEN Some([pm[1] EXCEPT !.end_time = now(t)]) ELSE pm

\* MetadataCollector.track_step
track_step(pm, step) ==
    IF ~IsNone(pm) THEN Some(add_step(pm[1], step)) ELSE pm

(* ======================= state ========================================== *)
VARIABLES
    storage,      \* the repository's directory
    usedIds,      \* run ids uuid4 has produced so far
    cur,          \* repository session: the PipelineMetadata object at hand (optional)
    created,      \* repository session: PipelineMetadata objects constructed
    added,        \* repository session: add_step calls made
    last,         \* repository session: the latest repository call and its result
    savedMd,      \* history: run_id -> the PipelineMetadata most recently passed to save
    commands,     \* DataPipeline.commands: the class names of the commands, in order
    collector,    \* DataPipeline.collector.pipeline_metadata (optional)
    pc,           \* position of DataPipeline.run: "idle", "loop" or "call" (in command.process)
    i,            \* commands invoked so far in the current run
    df,           \* the local df of DataPipeline.run
    repository,   \* whether the current run was given a repository
    outcome,      \* how the latest run ended: "none", "returned" or "raised"
    returned,     \* the value the latest run returned (optional)
    log,          \* history: the results of the commands invoked in the current run
    runs,         \* calls of DataPipeline.run so far
    clock,        \* the wall clock read by datetime.now()
    saves,        \* repository.save calls made by the current run
    finished,     \* history: calls of DataPipeline.run that returned
    tracked,      \* collector session: history of the steps handed to add_step
    scope,        \* collector session: position of a with-statement, "out" or "body"
    call,         \* collector session: the latest call and the state it found
    records,      \* collector session: history of the run ids of the records constructed
    collectors,   \* collector session: MetadataCollector objects constructed
    qa,           \* QualityAnalysisCommand.process: its position, locals and result
    ai,           \* AIRemoteCategorizationCommand.process: its position, locals and result
    calc          \* a QualityCalculator: its construction and its latest calculate call

repoVars == <<storage, usedIds, cur, created, added, last, savedMd>>

pipeVars == <<commands, collector, pc, i, df, repository, outcome, returned, log, runs, clock,
              saves, finished>>

collVars == <<tracked, scope, call, records, collectors>>

cmdVars == <<qa, ai, calc>>

vars == <<storage, usedIds, cur, created, added, last, savedMd,
          commands, collector, pc, i, df, repository, outcome, returned, log, runs, clock,
          saves, finished, tracked, scope, call, records, collectors, qa, ai, calc>>

NoCall == [op |-> "none", arg |-> <<>>, result |-> <<>>, overwrote |-> FALSE]

\* collector session before any call: no collector call made, no record constructed
NoCollectorCall == [op |-> "none", before |-> None, at |-> 0, raised |-> FALSE,
                    propagated |-> FALSE]

CollectorIdle ==
    /\ tracked = <<>>
    /\ scope = "out"
    /\ call = NoCollectorCall
    /\ records = <<>>
    /\ collectors = 0

\* QualityAnalysisCommand / AIRemoteCategorizationCommand with no call of process yet
QaIdle == [pc |-> "idle", df |-> <<>>, reporter |-> "none", metrics |-> None,
           reported |-> None, caught |-> FALSE, result |-> None]

AiIdle == [pc |-> "idle", rows |-> 0, len |-> 0, batch_size |-> 1, max_errors |-> 0,
           start |-> 0, error_count |-> 0, sent |-> <<>>, annotated |-> {}, result |-> None]

\* a QualityCalculator not yet constructed
CalcIdle == [built |-> FALSE, strategy |-> "none", weights |-> <<0, 0, 0>>, raised |-> FALSE,
             df |-> <<>>, metrics |-> None]

CommandsIdle == qa = QaIdle /\ ai = AiIdle /\ calc = CalcIdle

\* a DataPipeline with no commands and no run
PipelineIdle ==
    /\ commands = <<>>
    /\ pc = "idle"
    /\ i = 0
    /\ df = NoneValue
    /\ repository = FALSE
    /\ outcome = "none"
    /\ returned = None
    /\ log = <<>>
    /\ runs = 0
    /\ saves = 0
    /\ finished = 0

\* a MetadataRepository session with no call
RepositoryIdle ==
    /\ storage = EmptyStorage
    /\ cur = None
    /\ created = 0
    /\ added = 0
    /\ last = NoCall
    /\ savedMd = <<>>

(* ================= repository session =================================== *)
\* arguments callers pass to PipelineMetadata(...)
CtorArgs ==
    {[start_time |-> [sec |-> 1, usec |-> 0], end_time |-> [sec |-> 2, usec |-> 0],
      quality_index |-> None, context_files |-> None],
     [start_time |-> [sec |-> 1, usec |-> 7], end_time |-> [sec |-> 2, usec |-> 0],
      quality_index |-> Some(92),
      context_files |-> Some({<<"categories", "candidate_categories.json">>})]}

\* arguments callers pass to StepMetadata(...)
StepArgs ==
    {[name |-> "LoadCommand", input_rows |-> 0, output_rows |-> 1, duration |-> Some(1500000),
      start_time |-> None, end_time |-> None, parameters |-> Some({<<"input_dir", "/data">>})],
     [name |-> "CleanCommand", input_rows |-> 1, output_rows |-> 0, duration |-> None,
      start_time |-> Some([sec |-> 1, usec |-> 7]), end_time |-> Some([sec |-> 2, usec |-> 0]),
      parameters |-> None]}

RepoInit ==
    /\ storage \in {EmptyStorage, [dir |-> TRUE, files |-> <<>>]}
    /\ usedIds = {}
    /\ cur = None
    /\ created = 0
    /\ added = 0
    /\ last = NoCall
    /\ savedMd = <<>>
    /\ commands = <<>>
    /\ collector = None
    /\ pc = "idle"
    /\ i = 0
    /\ df = NoneValue
    /\ repository = FALSE
    /\ outcome = "none"
    /\ returned = None
    /\ log = <<>>
    /\ runs = 0
    /\ clock = 1
    /\ saves = 0
    /\ finished = 0
    /\ CollectorIdle
    /\ CommandsIdle

\* a caller constructs a PipelineMetadata
NewRecord ==
    /\ created < MaxRecords
    /\ \E uuid \in RunIdPool \ usedIds, a \in CtorArgs :
          /\ cur' = Some(PipelineMetadata("test_pipeline", a.start_time, a.end_time,
                                          a.quality_index, a.context_files, uuid))
          /\ usedIds' = usedIds \cup {uuid}
    /\ created' = created + 1
    /\ UNCHANGED <<storage, added, last, savedMd, pipeVars, collVars, cmdVars>>

\* a caller adds a step to the record at hand
AddStep ==
    /\ ~IsNone(cur)
    /\ added < MaxSteps
    /\ added' = added + 1
    /\ \E a \in StepArgs :
          cur' = Some(add_step(cur[1], StepMetadata(a.name, a.input_rows, a.output_rows,
                          a.duration, a.start_time, a.end_time, a.parameters)))
    /\ UNCHANGED <<storage, usedIds, created, last, savedMd, pipeVars, collVars, cmdVars>>

\* repo.save(pipeline_metadata)
SaveOp ==
    /\ ~IsNone(cur)
    /\ storage' = save(storage, cur[1])
    /\ last' = [op |-> "save", arg |-> cur[1].run_id, result |-> save_returns(cur[1]),
                overwrote |-> /\ FileExists(storage, cur[1].run_id)
                              /\ storage.files[cur[1].run_id] # to_dict(cur[1])]
    /\ savedMd' = [id \in (DOMAIN savedMd) \cup {cur[1].run_id} |->
                      IF id = cur[1].run_id THEN cur[1] ELSE savedMd[id]]
    /\ UNCHANGED <<usedIds, cur, created, added, pipeVars, collVars, cmdVars>>

\* repo.load(run_id)
LoadOp(run_id) ==
    /\ last' = [op |-> "load", arg |-> run_id, result |-> load(storage, run_id, Scratch),
                overwrote |-> FALSE]
    /\ UNCHANGED <<storage, usedIds, cur, created, added, savedMd, pipeVars, collVars, cmdVars>>

\* repo.list_runs()
ListRunsOp ==
    /\ \E globbed \in GlobOrders(storage) :
          last' = [op |-> "list", arg |-> <<>>, result |-> list_runs(storage, globbed),
                   overwrote |-> FALSE]
    /\ UNCHANGED <<storage, usedIds, cur, created, added, savedMd, pipeVars, collVars, cmdVars>>

RepoNext ==
    \/ NewRecord
    \/ AddStep
    \/ SaveOp
    \/ \E run_id \in RunIdPool : LoadOp(run_id)
    \/ ListRunsOp

SpecRepo == RepoInit /\ [][RepoNext]_vars


(* ================= claims: MetadataRepository =========================== *)
\* C7 (as claimed): load(save(r)) equals r field by field -- run_id,
\* pipeline_name, start_time, end_time, input_rows, output_rows,
\* quality_index, context_files and every nested step in order.
C7_RoundTripAllFields ==
    (last.op = "load" /\ last.arg \in DOMAIN savedMd)
        => last.result = Some(savedMd[last.arg])

\* C8: load(run_id) for an id with no stored file returns None, whatever the
\* storage state (directory present or not), and leaves the storage unchanged.
C8_LoadAbsentReturnsNone ==
    [][\A run_id \in RunIdPool :
          (LoadOp(run_id) /\ ~FileExists(storage, run_id))
              => (last'.result = None /\ storage' = storage)]_vars

C8_Witness ==
    /\ last.op = "load"
    /\ ~storage.dir
    /\ last.result = None

\* C9: save returns run.run_id and creates the directory; after any sequence
\* of saves the store holds exactly one document per distinct saved run_id,
\* and it is the content of the most recent save for that id.
C9_SaveOverwrites ==
    /\ (last.op = "save" => (last.result = last.arg /\ storage.dir))
    /\ DOMAIN storage.files = DOMAIN savedMd
    /\ \A id \in DOMAIN savedMd : storage.files[id] = to_dict(savedMd[id])

C9_Witness ==
    /\ last.op = "save"
    /\ last.overwrote
    /\ Cardinality(DOMAIN storage.files) >= 2

\* C10: list_runs() returns exactly the distinct run_ids saved so far, each
\* once, in lexicographic order; with no storage directory it returns [].
C10_ListRunsSortedDistinct ==
    last.op = "list" =>
        /\ {last.result[k] : k \in 1..Len(last.result)} = DOMAIN savedMd
        /\ \A j, k \in 1..Len(last.result) : j < k => StrLess(last.result[j], last.result[k])
        /\ (~storage.dir => last.result = <<>>)

C10_Witness ==
    /\ last.op = "list"
    /\ Len(last.result) = 3


(* ================= collector session ==================================== *)
\* variant of __exit__ that ends the run only when the body raised nothing
exit_scope_skips_on_error(pm, t, exc_type) == IF exc_type THEN pm ELSE end_pipeline(pm, t)

\* MetadataCollector.__exit__(exc_type, exc_val, exc_tb): the record after it
exit_scope(pm, t, exc_type) == end_pipeline(pm, t)

\* the value __exit__ returns: whether the with-statement swallows the exception
exit_suppresses(exc_type) == FALSE

\* MetadataCollector(pipeline_name) or MetadataCollector(pipeline_name, pipeline_metadata)
CollectorInit ==
    /\ RepositoryIdle
    /\ PipelineIdle
    /\ CommandsIdle
    /\ clock = 1
    /\ tracked = <<>>
    /\ scope = "out"
    /\ collectors = 1
    /\ \/ /\ collector = None
          /\ usedIds = {}
          /\ records = <<>>
          /\ call = [NoCollectorCall EXCEPT !.op = "new"]
       \/ /\ collector = Some(PipelineMetadata("existing_pipeline", now(0), now(0),
                                               None, None, uuid4({})))
          /\ usedIds = {uuid4({})}
          /\ records = <<uuid4({})>>
          /\ call = [NoCollectorCall EXCEPT !.op = "new_with_record"]

\* a caller constructs another collector, with or without a PipelineMetadata
NewCollector(supplied) ==
    /\ scope = "out"
    /\ collectors < MaxCollectors
    /\ collectors' = collectors + 1
    /\ IF supplied
       THEN /\ collector' = Some(PipelineMetadata("existing_pipeline", now(0), now(0),
                                                  None, None, uuid4(usedIds)))
            /\ usedIds' = usedIds \cup {uuid4(usedIds)}
            /\ records' = Append(records, uuid4(usedIds))
            /\ call' = [NoCollectorCall EXCEPT !.op = "new_with_record"]
       ELSE /\ collector' = None
            /\ call' = [NoCollectorCall EXCEPT !.op = "new"]
            /\ UNCHANGED <<usedIds, records>>
    /\ tracked' = <<>>
    /\ UNCHANGED <<storage, cur, created, added, last, savedMd, commands, pc, i, df,
                   repository, outcome, returned, log, runs, clock, saves, finished, scope,
                   cmdVars>>

\* what start_pipeline() does to the session, shared by start_pipeline() and __enter__
Starts(op) ==
    /\ clock < MaxClock
    /\ collector' = start_pipeline(collector, "test_pipeline", clock, uuid4(usedIds))
    /\ usedIds' = IF IsNone(collector) THEN usedIds \cup {uuid4(usedIds)} ELSE usedIds
    /\ records' = IF IsNone(collector) THEN Append(records, uuid4(usedIds)) ELSE records
    /\ clock' = clock + 1
    /\ call' = [NoCollectorCall EXCEPT !.op = op, !.before = collector, !.at = clock]

\* collector.start_pipeline()
StartOp ==
    /\ Starts("start")
    /\ UNCHANGED <<storage, cur, created, added, last, savedMd, commands, pc, i, df,
                   repository, outcome, returned, log, runs, saves, finished,
                   tracked, scope, collectors, cmdVars>>

\* collector.track_step(step)
TrackOp(a) ==
    /\ Len(tracked) < MaxTracked
    /\ LET step == StepMetadata(a.name, a.input_rows, a.output_rows, a.duration,
                                a.start_time, a.end_time, a.parameters)
       IN /\ collector' = track_step(collector, step)
          /\ tracked' = IF IsNone(collector) THEN tracked ELSE Append(tracked, step)
    /\ call' = [NoCollectorCall EXCEPT !.op = "track", !.before = collector, !.at = clock]
    /\ UNCHANGED <<storage, usedIds, cur, created, added, last, savedMd, commands, pc, i, df,
                   repository, outcome, returned, log, runs, clock, saves, finished,
                   scope, records, collectors, cmdVars>>

\* collector.end_pipeline()
EndOp ==
    /\ clock < MaxClock
    /\ collector' = end_pipeline(collector, clock)
    /\ clock' = clock + 1
    /\ call' = [NoCollectorCall EXCEPT !.op = "end", !.before = collector, !.at = clock]
    /\ UNCHANGED <<storage, usedIds, cur, created, added, last, savedMd, commands, pc, i, df,
                   repository, outcome, returned, log, runs, saves, finished,
                   tracked, scope, records, collectors, cmdVars>>

\* with collector: -- __enter__ runs, the body begins
EnterOp ==
    /\ scope = "out"
    /\ Starts("enter")
    /\ scope' = "body"
    /\ UNCHANGED <<storage, cur, created, added, last, savedMd, commands, pc, i, df,
                   repository, outcome, returned, log, runs, saves, finished,
                   tracked, collectors, cmdVars>>

\* the body of the with-statement completes (exc_type FALSE) or raises (TRUE):
\* __exit__ runs and the scope is left
ExitOp(exc_type) ==
    /\ scope = "body"
    /\ clock < MaxClock
    /\ collector' = exit_scope(collector, clock, exc_type)
    /\ clock' = clock + 1
    /\ scope' = "out"
    /\ call' = [NoCollectorCall EXCEPT !.op = "exit", !.before = collector, !.at = clock,
                                       !.raised = exc_type,
                                       !.propagated = exc_type /\ ~exit_suppresses(exc_type)]
    /\ UNCHANGED <<storage, usedIds, cur, created, added, last, savedMd, commands, pc, i, df,
                   repository, outcome, returned, log, runs, saves, finished,
                   tracked, records, collectors, cmdVars>>

CollectorNext ==
    \/ \E supplied \in BOOLEAN : NewCollector(supplied)
    \/ StartOp
    \/ \E a \in StepArgs : TrackOp(a)
    \/ EndOp
    \/ EnterOp
    \/ \E exc_type \in BOOLEAN : ExitOp(exc_type)

SpecCollector == CollectorInit /\ [][CollectorNext]_vars


(* ================= claims: MetadataCollector ============================ *)
\* C11: after any sequence of track_step calls on a started recorder, steps
\* holds exactly the tracked records in call order, and output_rows is the
\* output_rows of the most recently tracked step.
C11_StepsInCallOrder ==
    ~IsNone(collector) =>
        /\ collector[1].steps = tracked
        /\ tracked # <<>> =>
              collector[1].output_rows = Some(tracked[Len(tracked)].output_rows)

C11_Witness ==
    /\ ~IsNone(collector)
    /\ Len(tracked) = 2
    /\ tracked[1].output_rows # tracked[2].output_rows

\* C12 (as claimed): every start() finds the recorder without a RunRecord and
\* leaves it with one whose run id is fresh and whose start_time is now; no
\* two RunRecords created share a run_id.
C12_StartAlwaysCreates ==
    /\ call.op \in {"start", "enter"} =>
          /\ IsNone(call.before)
          /\ ~IsNone(collector)
          /\ collector[1].start_time = now(call.at)
    /\ \A j, k \in 1..Len(records) : j # k => records[j] # records[k]

\* C12 (amended): start() on a recorder that holds no RunRecord creates one
\* with a fresh run id and start_time = now; on a recorder that already holds
\* one (handed to its constructor, or created by an earlier start) it leaves
\* that record as it is.  A recorder constructed without a record holds none
\* until start, every recorder holds exactly one after start, and no two
\* RunRecords created share a run_id.
C12_StartCreatesWhenNone ==
    /\ call.op \in {"start", "enter"} =>
          /\ ~IsNone(collector)
          /\ IF IsNone(call.before)
             THEN /\ collector[1].start_time = now(call.at)
                  /\ collector[1].run_id = records[Len(records)]
                  /\ collector[1].steps = <<>>
             ELSE collector = call.before
    /\ call.op = "new" => IsNone(collector)
    /\ \A j, k \in 1..Len(records) : j # k => records[j] # records[k]

C12_Witness ==
    /\ call.op = "start"
    /\ IsNone(call.before)
    /\ Len(records) = 2

\* C13: used in a with-statement, entering starts the run, and whether the
\* body completes or raises, end_pipeline has run (end_time is the time of
\* leaving) once the scope is left, and an exception raised in the body
\* still reaches the caller.
C13_ScopeEndsRunOnEveryPath ==
    /\ call.op = "enter" => (~IsNone(collector) /\ scope = "body")
    /\ call.op = "exit" =>
          /\ scope = "out"
          /\ ~IsNone(collector)
          /\ collector[1].end_time = now(call.at)
          /\ call.raised => call.propagated

C13_Witness ==
    /\ call.op = "exit"
    /\ call.raised
    /\ call.propagated
    /\ Len(tracked) >= 1


(* ================= DataPipeline ========================================= *)
\* DataPipeline(commands, collector): no collector, or one that was handed
\* a PipelineMetadata as pipeline_runner.main does
Init ==
    /\ storage = EmptyStorage
    /\ cur = None
    /\ created = 0
    /\ added = 0
    /\ last = NoCall
    /\ savedMd = <<>>
    /\ \E n \in 0..MaxCmds : commands = SubSeq(CommandNames, 1, n)
    /\ \/ collector = None /\ usedIds = {}
       \/ /\ collector = Some(PipelineMetadata("DataPipeline", now(0), now(0), None, None, uuid4({})))
          /\ usedIds = {uuid4({})}
    /\ pc = "idle"
    /\ i = 0
    /\ df = NoneValue
    /\ repository = FALSE
    /\ outcome = "none"
    /\ returned = None
    /\ log = <<>>
    /\ runs = 0
    /\ clock = 1
    /\ saves = 0
    /\ finished = 0
    /\ CollectorIdle
    /\ CommandsIdle

\* run(initial_df, repository) up to the loop: df = initial_df, start_pipeline()
RunBegin(initial_df, repo) ==
    /\ pc = "idle"
    /\ runs' = runs + 1
    /\ df' = initial_df
    /\ repository' = repo
    /\ collector' = start_pipeline(collector, "DataPipeline", clock, uuid4(usedIds))
    /\ usedIds' = IF IsNone(collector) THEN usedIds \cup {uuid4(usedIds)} ELSE usedIds
    /\ clock' = clock + 1
    /\ pc' = "loop"
    /\ i' = 0
    /\ log' = <<>>
    /\ outcome' = "none"
    /\ returned' = None
    /\ saves' = 0
    /\ UNCHANGED <<storage, cur, created, added, last, savedMd, commands, finished>>
    /\ UNCHANGED <<collVars, cmdVars>>

\* a call of run on a pipeline instance, at most MaxRuns of them
RunStart(initial_df, repo) ==
    /\ runs < MaxRuns
    /\ RunBegin(initial_df, repo)

\* variant of RunInvoke that starts the next command while one is executing
RunInvoke_without_waiting ==
    /\ pc \in {"loop", "call"}
    /\ i < Len(commands)
    /\ pc' = "call"
    /\ i' = i + 1
    /\ UNCHANGED <<storage, usedIds, cur, created, added, last, savedMd, commands,
                   collector, df, repository, outcome, returned, log, runs, clock, saves, finished>>
    /\ UNCHANGED <<collVars, cmdVars>>

\* one iteration of the loop, up to the call: command.process(df) is entered
RunInvoke ==
    /\ pc = "loop"
    /\ i < Len(commands)
    /\ pc' = "call"
    /\ i' = i + 1
    /\ UNCHANGED <<storage, usedIds, cur, created, added, last, savedMd, commands,
                   collector, df, repository, outcome, returned, log, runs, clock, saves, finished>>
    /\ UNCHANGED <<collVars, cmdVars>>

\* variant of RunStep that raises when the result carries a negative status
RunStep_raises_on_negative(result, elapsed) ==
    /\ pc = "call"
    /\ LET input_rows == RowsOf(df)
           output_rows == RowsOf(result)
           step_metadata == StepMetadata(commands[i], input_rows, output_rows,
                                         Some(elapsed), None, None, Some(EmptyMap))
       IN collector' = track_step(collector, step_metadata)
    /\ df' = result
    /\ log' = Append(log, result)
    /\ IF result.kind = "CommandResult" /\ result.return_code < 0
       THEN pc' = "idle" /\ outcome' = "raised"
       ELSE pc' = "loop" /\ outcome' = outcome
    /\ UNCHANGED <<storage, usedIds, cur, created, added, last, savedMd, commands,
                   i, repository, returned, runs, clock, saves, finished>>
    /\ UNCHANGED <<collVars, cmdVars>>

\* the rest of the iteration: the command returns result, its step is tracked
RunStep(result, elapsed) ==
    /\ pc = "call"
    /\ LET input_rows == RowsOf(df)
           output_rows == RowsOf(result)
           step_metadata == StepMetadata(commands[i], input_rows, output_rows,
                                         Some(elapsed), None, None, Some(EmptyMap))
       IN collector' = track_step(collector, step_metadata)
    /\ df' = result
    /\ log' = Append(log, result)
    /\ pc' = "loop"
    /\ UNCHANGED <<storage, usedIds, cur, created, added, last, savedMd, commands,
                   i, repository, outcome, returned, runs, clock, saves, finished>>
    /\ UNCHANGED <<collVars, cmdVars>>

\* variant of RunStepRaises that tracks a step for the command that raised
RunStepRaises_tracking_step ==
    /\ pc = "call"
    /\ pc' = "idle"
    /\ outcome' = "raised"
    /\ collector' = track_step(collector,
                               StepMetadata(commands[i], RowsOf(df), 0, None, None, None,
                                            Some(EmptyMap)))
    /\ UNCHANGED <<storage, usedIds, cur, created, added, last, savedMd, commands,
                   i, df, repository, returned, log, runs, clock, saves, finished>>
    /\ UNCHANGED <<collVars, cmdVars>>

\* the rest of the iteration: command.process raises; run has no handler
RunStepRaises ==
    /\ pc = "call"
    /\ pc' = "idle"
    /\ outcome' = "raised"
    /\ UNCHANGED <<storage, usedIds, cur, created, added, last, savedMd, commands,
                   collector, i, df, repository, returned, log, runs, clock, saves, finished>>
    /\ UNCHANGED <<collVars, cmdVars>>

\* after the loop: end_pipeline(), repository.save(metadata) if given, return df
RunFinish ==
    /\ pc = "loop"
    /\ i = Len(commands)
    /\ collector' = end_pipeline(collector, clock)
    /\ clock' = clock + 1
    /\ IF repository
       THEN /\ storage' = save(storage, collector'[1])
            /\ savedMd' = [id \in (DOMAIN savedMd) \cup {collector'[1].run_id} |->
                              IF id = collector'[1].run_id THEN collector'[1] ELSE savedMd[id]]
            /\ saves' = saves + 1
       ELSE UNCHANGED <<storage, savedMd, saves>>
    /\ returned' = Some(df)
    /\ outcome' = "returned"
    /\ finished' = finished + 1
    /\ pc' = "idle"
    /\ UNCHANGED <<usedIds, cur, created, added, last, commands, i, df, repository, log, runs>>
    /\ UNCHANGED <<collVars, cmdVars>>

Next ==
    \/ \E initial_df \in Datasets, repo \in BOOLEAN : RunStart(initial_df, repo)
    \/ RunInvoke
    \/ \E result \in Results, elapsed \in Elapsed : RunStep(result, elapsed)
    \/ RunStepRaises
    \/ RunFinish

Spec == Init /\ [][Next]_vars


(* ================= claims: DataPipeline.run ============================= *)
\* a result that carries a negative / positive status code
Negative(r) == r.kind = "CommandResult" /\ r.return_code < 0

Positive(r) == r.kind = "CommandResult" /\ r.return_code > 0

\* the dataset a result stands for: itself, or the data of a CommandResult
DatasetOf(r) ==
    IF r.kind = "CommandResult"
    THEN (IF IsNone(r.data) THEN NoneValue ELSE DataFrame(r.data[1]))
    ELSE r

\* whether, and where, the current run's log holds a negative status
Halted == \E k \in 1..Len(log) : Negative(log[k])

FirstNegative == CHOOSE k \in 1..Len(log) :
                    Negative(log[k]) /\ \A j \in 1..(k - 1) : ~Negative(log[j])

\* C1 (as claimed): once a command's result carries a negative status code
\* no command positioned after it is invoked in that run.
C1_StopsOnNegativeStatus ==
    \A k \in 1..Len(log) : Negative(log[k]) => i = k

\* C2 (as claimed): whenever a command returned a negative status code the
\* dataset DataPipeline.run returns is an empty dataset.
C2_EmptyDatasetOnNegativeStatus ==
    (outcome = "returned" /\ Halted) => returned = Some(DataFrame(0))

\* C3 (as claimed): after a command returned a positive status code the
\* working dataset is the result's dataset, its step records that dataset's
\* rows, the run goes on to the next command, and a run ending there returns
\* that dataset.
C3_PositiveStatusContinues ==
    \A k \in 1..Len(log) : Positive(log[k]) =>
        /\ (pc = "loop" /\ i = k) => df = DatasetOf(log[k])
        /\ ~IsNone(collector) =>
              collector[1].steps[Len(collector[1].steps) - Len(log) + k].output_rows
                  = RowsOf(DatasetOf(log[k]))
        /\ (outcome = "returned") => Len(log) = Len(commands)
        /\ (outcome = "returned" /\ k = Len(log)) => returned = Some(DatasetOf(log[k]))

\* C4 (as claimed): when run finishes, the number of StepRecords equals the
\* number of commands invoked: the list length when no command returned a
\* negative status, the index of the first failing command + 1 otherwise.
C4_StepCountEqualsInvoked ==
    outcome = "returned" =>
        /\ Len(collector[1].steps) = i
        /\ i = (IF Halted THEN FirstNegative ELSE Len(commands))

\* C5 (as claimed): for a run in which no command returned a negative
\* status, output_rows of the run record equals the row count of the
\* dataset run returns.
C5_OutputRowsEqualsFinalRows ==
    (outcome = "returned" /\ ~Halted) =>
        collector[1].output_rows = Some(RowsOf(DatasetOf(returned[1])))

\* C6 (as claimed): when a command returned a negative status and a
\* repository was supplied, exactly one run is stored and its document
\* carries the failing status code and error at run level and in the failing
\* step's record, which is the last entry of steps.
C6_FailurePersistedWithError ==
    (outcome = "returned" /\ repository /\ Halted) =>
        /\ Cardinality(DOMAIN storage.files) = 1
        /\ FileExists(storage, collector[1].run_id)
        /\ LET doc == storage.files[collector[1].run_id]
               failed == log[FirstNegative]
           IN /\ {"result_code", "error"} \subseteq DOMAIN doc
              /\ doc.result_code = failed.return_code
              /\ doc.error = failed.error
              /\ Len(doc.steps) = FirstNegative
              /\ {"result_code", "error"} \subseteq DOMAIN doc.steps[Len(doc.steps)]
              /\ doc.steps[Len(doc.steps)].result_code = failed.return_code
              /\ doc.steps[Len(doc.steps)].error = failed.error

\* dict.update: the pairs of u replace the pairs of m that have the same key
MapMerge(m, u) == {p \in m : \A q \in u : q[1] # p[1]} \cup u

\* the map that results from merging, in order, the named updates field of
\* every non-halting result into initial
RECURSIVE MergeUpdates(_, _, _)
MergeUpdates(initial, results, field) ==
    IF results = <<>> THEN initial
    ELSE LET r == Head(results)
             merged == IF ~Negative(r) /\ ~IsNone(r[field])
                       THEN MapMerge(initial, r[field][1]) ELSE initial
         IN MergeUpdates(merged, Tail(results), field)

\* context_files read as a map: None stands for no entries
ContextOf(context_files) == IF IsNone(context_files) THEN EmptyMap ELSE context_files[1]

\* C14 (as claimed): a run that returns has finalized the recorder after the
\* last step and before persisting; save was called once if a repository was
\* supplied and never otherwise; the saved record holds every step of the run
\* and the context snapshot.
C14_FinalizeThenSaveOnce ==
    outcome = "returned" =>
        /\ saves = (IF repository THEN 1 ELSE 0)
        /\ repository =>
              /\ collector[1].run_id \in DOMAIN savedMd
              /\ LET rec == savedMd[collector[1].run_id]
                 IN /\ rec.end_time = now(clock - 1)
                    /\ rec.steps = collector[1].steps
                    /\ Len(rec.steps) >= Len(commands)
                    /\ ContextOf(rec.context_files)
                           = MergeUpdates(EmptyMap, log, "context_updates")

\* C15 (as claimed): after a run the run record's context_files equals the
\* initial context overridden key by key by each non-halting command's
\* context_updates in execution order.
C15_ContextMergedLastWriterWins ==
    outcome = "returned" =>
        ContextOf(collector[1].context_files)
            = MergeUpdates(ContextOf(None), log, "context_updates")

\* C16 (as claimed): at the end of a run each telemetry key (quality_index)
\* holds the value supplied by the last non-halting command that set it, and
\* keeps its initial value when no command supplied it.
C16_MetadataMergedLastWriterWins ==
    outcome = "returned" =>
        LET supplied == MergeUpdates(EmptyMap, log, "metadata_updates")
        IN IF \E p \in supplied : p[1] = "quality_index"
           THEN \A p \in supplied :
                   p[1] = "quality_index" => collector[1].quality_index = Some(p[2])
           ELSE collector[1].quality_index = None

\* C17: step execution is sequential -- at most one command is executing at
\* any time, commands start in list order, and a command is started only
\* after every earlier command has returned and had its step tracked.
C17_SequentialSteps ==
    /\ i - Len(log) \in {0, 1}
    /\ pc = "call" => i = Len(log) + 1
    /\ pc = "loop" => i = Len(log)
    /\ runs > 0 =>
          /\ Len(collector[1].steps) >= Len(log)
          /\ \A k \in 1..Len(log) :
                collector[1].steps[Len(collector[1].steps) - Len(log) + k].name = commands[k]

C17_Witness ==
    /\ pc = "call"
    /\ i = 2
    /\ Len(log) = 1

C26_RowCountsChain ==
    ~IsNone(collector) =>
        LET steps == collector[1].steps
            base == Len(steps) - Len(log)
        IN /\ \A k \in 1..Len(log) :
                 steps[base + k].output_rows = RowsOf(DatasetOf(log[k]))
           /\ \A k \in 2..Len(log) :
                 steps[base + k].input_rows = RowsOf(DatasetOf(log[k - 1]))
           /\ \A k \in 1..(Len(steps) - 1) : steps[k + 1].input_rows = steps[k].output_rows
           /\ Len(steps) > 0 => collector[1].input_rows = Some(steps[1].input_rows)

\* C28: when a command raised, run has propagated the exception without
\* returning a value; the record's latest steps are those of the commands
\* that completed before it, in order, and none stands for the raising
\* command; save was not called in that run, so a first run leaves the store
\* empty and a stored document of an earlier run holds none of this run's
\* steps; end_pipeline was not called.
C28_RaiseLeavesCompletedSteps ==
    outcome = "raised" =>
        /\ returned = None
        /\ saves = 0
        /\ finished < runs
        /\ LET steps == collector[1].steps
               base == Len(steps) - (i - 1)
           IN /\ base >= 0
              /\ \A k \in 1..(i - 1) :
                    /\ steps[base + k].name = commands[k]
                    /\ steps[base + k].output_rows = RowsOf(log[k])
              /\ runs = 1 => (base = 0 /\ storage = EmptyStorage /\ savedMd = <<>>)
              /\ collector[1].run_id \in DOMAIN savedMd =>
                    Len(savedMd[collector[1].run_id].steps) <= base

\* the second of two commands raised in a run that was given a repository
C28_Witness ==
    /\ outcome = "raised"
    /\ repository
    /\ i = 2
    /\ Len(collector[1].steps) = 1
    /\ collector[1].steps[1].name = commands[1]
    /\ storage = EmptyStorage

(* ================= one DataPipeline run repeatedly ===================== *)
\* what the commands of a repeated pipeline return: bare datasets
RerunResults == {DataFrame(0), DataFrame(MaxRows)}

\* a call of run on a pipeline instance, at most MaxReruns of them
Rerun(initial_df, repo) ==
    /\ runs < MaxReruns
    /\ RunBegin(initial_df, repo)

RerunNext ==
    \/ \E initial_df \in RerunResults, repo \in BOOLEAN : Rerun(initial_df, repo)
    \/ RunInvoke
    \/ \E result \in RerunResults, elapsed \in Elapsed : RunStep(result, elapsed)
    \/ RunStepRaises
    \/ RunFinish

SpecRerun == Init /\ [][RerunNext]_vars

\* C27: from the first start on the collector holds one record whose run_id
\* is the only id ever drawn, whose pipeline_name and start_time are those
\* of its creation (at the constructor or at the first start) and whose
\* steps extend the steps it had at the latest save; when every run so far
\* returned, the record holds runs * len(commands) steps; the store holds at
\* most one document, list_runs lists that one run_id, and the document
\* written by the latest run holds all the steps.
C27_OneRecordAcrossRuns ==
    runs > 0 =>
        /\ ~IsNone(collector)
        /\ usedIds = {collector[1].run_id}
        /\ collector[1].pipeline_name = "DataPipeline"
        /\ collector[1].start_time \in {now(0), now(1)}
        /\ finished = runs => Len(collector[1].steps) = runs * Len(commands)
        /\ Cardinality(DOMAIN storage.files) <= 1
        /\ collector[1].run_id \in DOMAIN savedMd =>
              /\ FileExists(storage, collector[1].run_id)
              /\ \A globbed \in GlobOrders(storage) :
                    list_runs(storage, globbed) = <<collector[1].run_id>>
              /\ LET saved == savedMd[collector[1].run_id]
                 IN /\ Len(saved.steps) <= Len(collector[1].steps)
                    /\ SubSeq(collector[1].steps, 1, Len(saved.steps)) = saved.steps
        /\ (finished = runs /\ repository) =>
              Len(storage.files[collector[1].run_id].steps) = runs * Len(commands)

\* a pipeline of two commands has been run twice, saving each time
C27_Witness ==
    /\ runs = 2
    /\ finished = 2
    /\ Len(commands) = 2
    /\ Len(collector[1].steps) = 4
    /\ saves = 1
    /\ Cardinality(DOMAIN storage.files) = 1
    /\ Len(storage.files[collector[1].run_id].steps) = 4

(* ================= QualityAnalysisCommand =============================== *)
\* the rows of the DataFrames handed to process: Category and Confidence cells
QualityRows ==
    {[Category |-> Some("Food"), Confidence |-> Some(90)],
     [Category |-> Some(""), Confidence |-> Some(30)],
     [Category |-> None, Confidence |-> None]}

RECURSIVE FramesOfLength(_)
FramesOfLength(n) ==
    IF n = 0 THEN {<<>>}
    ELSE {Append(f, r) : f \in FramesOfLength(n - 1), r \in QualityRows}

QualityFrames == UNION {FramesOfLength(n) : n \in 0..MaxQualityRows}

\* the reporter handed to the constructor: none, one whose report returns,
\* one whose report raises
Reporters == {"none", "reports", "raises"}

\* QualityAnalysisCommand._count_non_empty for the Category column
count_non_empty(frame) ==
    Cardinality({k \in 1..Len(frame) :
                    ~IsNone(frame[k].Category) /\ frame[k].Category[1] # ""})

\* QualityAnalysisCommand._analyze_quality: completeness in whole percent
analyze_quality(frame) ==
    [total_rows |-> Len(frame),
     category_completeness |-> IF Len(frame) > 0
                               THEN (count_non_empty(frame) * 100) \div Len(frame) ELSE 0]

\* the value process returns: the DataFrame it was given
ReturnedFrame(frame) == [kind |-> "DataFrame", frame |-> frame]

QualityInit ==
    /\ RepositoryIdle
    /\ PipelineIdle
    /\ CollectorIdle
    /\ usedIds = {}
    /\ collector = None
    /\ clock = 1
    /\ qa = QaIdle
    /\ ai = AiIdle
    /\ calc = CalcIdle

\* process(df) up to the try block: an empty DataFrame is returned at once
QaProcess(frame, reporter) ==
    /\ qa.pc = "idle"
    /\ qa' = [QaIdle EXCEPT !.df = frame, !.reporter = reporter,
                            !.pc = IF Len(frame) = 0 THEN "idle" ELSE "try",
                            !.result = IF Len(frame) = 0 THEN Some(ReturnedFrame(frame))
                                       ELSE None]
    /\ UNCHANGED <<repoVars, pipeVars, collVars, ai, calc>>

\* metrics = self._analyze_quality(df), which may raise into the except branch
QaAnalyze(raises) ==
    /\ qa.pc = "try"
    /\ qa' = IF raises
             THEN [qa EXCEPT !.caught = TRUE, !.pc = "return"]
             ELSE [qa EXCEPT !.metrics = Some(analyze_quality(qa.df)),
                             !.pc = IF qa.reporter = "none" THEN "return" ELSE "report"]
    /\ UNCHANGED <<repoVars, pipeVars, collVars, ai, calc>>

\* self.reporter.report(metrics), which may raise into the except branch
QaReport ==
    /\ qa.pc = "report"
    /\ qa' = IF qa.reporter = "raises"
             THEN [qa EXCEPT !.caught = TRUE, !.pc = "return"]
             ELSE [qa EXCEPT !.reported = qa.metrics, !.pc = "return"]
    /\ UNCHANGED <<repoVars, pipeVars, collVars, ai, calc>>

\* return df
QaReturn ==
    /\ qa.pc = "return"
    /\ qa' = [qa EXCEPT !.result = Some(ReturnedFrame(qa.df)), !.pc = "idle"]
    /\ UNCHANGED <<repoVars, pipeVars, collVars, ai, calc>>

QualityNext ==
    \/ \E frame \in QualityFrames, reporter \in Reporters : QaProcess(frame, reporter)
    \/ \E raises \in BOOLEAN : QaAnalyze(raises)
    \/ QaReport
    \/ QaReturn

SpecQuality == QualityInit /\ [][QualityNext]_vars

\* C19 (as claimed): whenever process has returned -- for an empty dataset,
\* and when the scoring or the reporter raised internally -- its result is a
\* CommandResult with status 0 whose data is the input dataset unchanged.
C19_AdvisoryStatusZero ==
    ~IsNone(qa.result) =>
        /\ qa.result[1].kind = "CommandResult"
        /\ qa.result[1].return_code = 0
        /\ qa.result[1].data = qa.df


(* ================= AIRemoteCategorizationCommand ======================== *)
\* what requests.post does for a batch: raises, or yields the JSON {} , a
\* response with code SUCCESS whose items name the rows of the batch, a
\* response with code SUCCESS whose item names an id that no row of the
\* DataFrame has, or a response with another code
Responses == {"exception", "empty", "SUCCESS", "SUCCESS_FOREIGN", "REJECTED"}

\* _call_api: None when the call raised, the response data otherwise
call_api(response) == IF response = "exception" THEN None ELSE Some(response)

\* variant of the test that also takes a non-SUCCESS response for no response
Truthy_only_success(response_data) ==
    ~IsNone(response_data) /\ response_data[1] \in {"SUCCESS", "SUCCESS_FOREIGN"}

\* `if response_data:` -- None and the empty dict are falsy
Truthy(response_data) == ~IsNone(response_data) /\ response_data[1] # "empty"

\* the DataFrame of process: its rows are labelled 0..rows-1; annotated holds
\* the labels of the rows that carry an annotation
AnnotatedFrame(rows, annotated) == [kind |-> "DataFrame", rows |-> rows, annotated |-> annotated]

\* _merge_results: result_df.loc[item_id, ...] = ... for every item; an
\* item_id that is no label of the DataFrame makes .loc append a row with
\* that label (the foreign id is taken to be the next free label)
merge_results(frame, response_data, start, end) ==
    IF response_data[1] = "SUCCESS"
    THEN AnnotatedFrame(frame.rows, frame.annotated \cup (start..(end - 1)))
    ELSE IF response_data[1] = "SUCCESS_FOREIGN"
    THEN AnnotatedFrame(frame.rows + 1, frame.annotated \cup {frame.rows})
    ELSE frame

\* min(start + self.batch_size, len(df))
BatchEnd(start, batch_size, rows) ==
    IF start + batch_size < rows THEN start + batch_size ELSE rows

\* variant of the stop test that lets one more batch go out
StopSending_after_exceeding(error_count, max_errors) == error_count > max_errors

\* `if error_count >= self.max_errors: break`
StopSending(error_count, max_errors) == error_count >= max_errors

AiInit ==
    /\ RepositoryIdle
    /\ PipelineIdle
    /\ CollectorIdle
    /\ usedIds = {}
    /\ collector = None
    /\ clock = 1
    /\ qa = QaIdle
    /\ ai = AiIdle
    /\ calc = CalcIdle

\* process(df) up to the loop, for a command built with batch_size and
\* max_errors: an empty DataFrame is returned at once
AiProcess(rows, batch_size, max_errors) ==
    /\ ai.pc = "idle"
    /\ ai' = [AiIdle EXCEPT !.rows = rows, !.len = rows, !.batch_size = batch_size,
                            !.max_errors = max_errors,
                            !.pc = IF rows = 0 THEN "idle" ELSE "loop",
                            !.result = IF rows = 0 THEN Some(AnnotatedFrame(rows, {}))
                                       ELSE None]
    /\ UNCHANGED <<repoVars, pipeVars, collVars, qa, calc>>

\* one iteration of the loop: the batch is built and sent, the response merged
\* or the error counted
AiBatch(response) ==
    /\ ai.pc = "loop"
    /\ ai.start < ai.rows
    /\ ~StopSending(ai.error_count, ai.max_errors)
    /\ LET end == BatchEnd(ai.start, ai.batch_size, ai.len)
           response_data == call_api(response)
           merged == IF Truthy(response_data)
                     THEN merge_results(AnnotatedFrame(ai.len, ai.annotated), response_data,
                                        ai.start, end)
                     ELSE AnnotatedFrame(ai.len, ai.annotated)
       IN ai' = [ai EXCEPT
                    !.sent = Append(@, [start |-> ai.start, end |-> end, len |-> ai.len,
                                        response |-> response,
                                        failed |-> ~Truthy(response_data)]),
                    !.len = merged.rows,
                    !.annotated = merged.annotated,
                    !.error_count = IF Truthy(response_data) THEN @ ELSE @ + 1,
                    !.start = ai.start + ai.batch_size]
    /\ UNCHANGED <<repoVars, pipeVars, collVars, qa, calc>>

\* the loop ends (range exhausted, or break on the error count): return df
AiReturn ==
    /\ ai.pc = "loop"
    /\ ai.start >= ai.rows \/ StopSending(ai.error_count, ai.max_errors)
    /\ ai' = [ai EXCEPT !.result = Some(AnnotatedFrame(ai.len, ai.annotated)),
                        !.pc = "idle"]
    /\ UNCHANGED <<repoVars, pipeVars, collVars, qa, calc>>

AiNext ==
    \/ \E rows \in 0..MaxAiRows, batch_size \in 1..MaxBatchSize, max_errors \in 0..MaxErrors :
          AiProcess(rows, batch_size, max_errors)
    \/ \E response \in Responses : AiBatch(response)
    \/ AiReturn

SpecAi == AiInit /\ [][AiNext]_vars


(* ================= claims: AIRemoteCategorizationCommand ================ *)
\* the batches among the first k sent whose call yielded no response data
FailedAmong(k) == Cardinality({j \in 1..k : ai.sent[j].failed})

\* the rows annotated by the batches that were answered with SUCCESS: the
\* rows of the batch, or the row appended for a foreign id
Accumulated ==
    UNION {IF ai.sent[k].response = "SUCCESS" THEN ai.sent[k].start..(ai.sent[k].end - 1)
           ELSE {ai.sent[k].len} :
              k \in {j \in 1..Len(ai.sent) :
                        ai.sent[j].response \in {"SUCCESS", "SUCCESS_FOREIGN"}}}

\* C20: batches are sent in input order; once the number of failed batches
\* has reached max_errors no further batch is sent (and until then none is
\* skipped), and process returns the DataFrame as accumulated so far (a
\* dataset, never a halting status); when every call failed the number of
\* calls is min(max_errors, ceil(rows / batch_size)), and for an empty
\* input no call is made.
C20_StopsAfterMaxErrors ==
    /\ \A k \in 1..Len(ai.sent) :
          /\ ai.sent[k].start = (k - 1) * ai.batch_size
          /\ ai.sent[k].end = BatchEnd((k - 1) * ai.batch_size, ai.batch_size, ai.sent[k].len)
          /\ FailedAmong(k - 1) < ai.max_errors
    /\ ~IsNone(ai.result) =>
          /\ ai.result[1].kind = "DataFrame"
          /\ ai.result[1].annotated = Accumulated
          /\ FailedAmong(Len(ai.sent)) < ai.max_errors =>
                (Len(ai.sent) * ai.batch_size >= ai.rows)
          /\ FailedAmong(Len(ai.sent)) = Len(ai.sent) =>
                LET batches == (ai.rows + ai.batch_size - 1) \div ai.batch_size
                IN Len(ai.sent) = (IF ai.max_errors < batches THEN ai.max_errors ELSE batches)
          /\ ai.rows = 0 => Len(ai.sent) = 0

C20_Witness ==
    /\ ~IsNone(ai.result)
    /\ ai.rows = 4
    /\ ai.batch_size = 1
    /\ ai.max_errors = 2
    /\ Len(ai.sent) = 2
    /\ FailedAmong(2) = 2


\* C29 (as claimed): for every input and every sequence of API outcomes the
\* dataset process returns has exactly the rows of its input -- the same
\* row count and row labels -- and only rows of the input carry annotations.
C29_SameRowsReturned ==
    ~IsNone(ai.result) =>
        /\ ai.result[1].rows = ai.rows
        /\ ai.result[1].annotated \subseteq 0..(ai.rows - 1)

\* the batches one pass over the input takes: ceil(rows / batch_size)
AllBatches == (ai.rows + ai.batch_size - 1) \div ai.batch_size

\* whether every batch sent so far was answered with a non-SUCCESS response
AllRejected == \A k \in 1..Len(ai.sent) : ai.sent[k].response = "REJECTED"

\* C30 (as claimed): the error count is the number of calls that yielded no
\* response; a non-SUCCESS response leaves the dataset unchanged and is not
\* counted, so a service that answers every batch with a non-SUCCESS
\* response has been sent all ceil(rows / batch_size) batches when process
\* returns, whatever max_errors is.
C30_RejectionsNeverStop ==
    /\ ai.error_count = FailedAmong(Len(ai.sent))
    /\ \A k \in 1..Len(ai.sent) : ai.sent[k].response = "REJECTED" => ~ai.sent[k].failed
    /\ AllRejected => (ai.annotated = {} /\ ai.len = ai.rows /\ ai.error_count = 0)
    /\ (~IsNone(ai.result) /\ AllRejected) => Len(ai.sent) = AllBatches

\* C30 (amended): as claimed when max_errors is at least 1; with max_errors
\* of 0 (or less) the loop stops before the first call and no batch is sent.
C30_RejectionsNeverStopPositiveLimit ==
    /\ ai.error_count = FailedAmong(Len(ai.sent))
    /\ \A k \in 1..Len(ai.sent) : ai.sent[k].response = "REJECTED" => ~ai.sent[k].failed
    /\ AllRejected => (ai.annotated = {} /\ ai.len = ai.rows /\ ai.error_count = 0)
    /\ (~IsNone(ai.result) /\ AllRejected) =>
          Len(ai.sent) = (IF ai.max_errors >= 1 THEN AllBatches ELSE 0)

\* four batches were all answered with a non-SUCCESS response under a limit of 1
C30_Witness ==
    /\ ~IsNone(ai.result)
    /\ ai.rows = 4
    /\ ai.batch_size = 1
    /\ ai.max_errors = 1
    /\ Len(ai.sent) = 4
    /\ AllRejected

(* ================= quality calculators (analyzer/pipeline/quality.py) === *)
\* Scores are exact fractions [num, den] in lowest terms with den > 0; the
\* rounding of binary64 arithmetic is not represented.  Text values are
\* sequences of one-character strings.
Abs(n) == IF n < 0 THEN -n ELSE n

RECURSIVE GCD(_, _)
GCD(a, b) == IF b = 0 THEN a ELSE GCD(b, a % b)

Frac(n, d) ==
    LET g == GCD(Abs(n), d)
    IN [num |-> n \div g, den |-> d \div g]

Zero == Frac(0, 1)

One == Frac(1, 1)

FAdd(a, b) == Frac(a.num * b.den + b.num * a.den, a.den * b.den)

FMul(a, b) == Frac(a.num * b.num, a.den * b.den)

\* a / b for b > 0
FDiv(a, b) == Frac(a.num * b.den, a.den * b.num)

FLess(a, b) == a.num * b.den < b.num * a.den

FMin(a, b) == IF FLess(b, a) THEN b ELSE a

FMax(a, b) == IF FLess(a, b) THEN b ELSE a

\* sum(scores)
RECURSIVE FSum(_)
FSum(scores) == IF scores = <<>> THEN Zero ELSE FAdd(Head(scores), FSum(Tail(scores)))

\* str.strip(): leading and trailing blanks removed
RECURSIVE strip(_)
strip(text) ==
    IF text = <<>> THEN text
    ELSE IF Head(text) = " " THEN strip(Tail(text))
    ELSE IF text[Len(text)] = " " THEN strip(SubSeq(text, 1, Len(text) - 1))
    ELSE text

\* str.upper(), on the letters the descriptions use
upper(text) ==
    [k \in 1..Len(text) |->
        IF text[k] = "a" THEN "A" ELSE IF text[k] = "b" THEN "B"
        ELSE IF text[k] = "x" THEN "X" ELSE IF text[k] = "y" THEN "Y" ELSE text[k]]

\* text[:n]
Slice(text, n) == SubSeq(text, 1, IF n < Len(text) THEN n ELSE Len(text))

\* str(value) of a cell: a missing cell (None) prints as the text None
str(cell) == IF IsNone(cell) THEN <<"N", "o", "n", "e">> ELSE cell[1]

\* a transaction row: optional category and subcategory texts, an optional
\* confidence in hundredths, and the description text
Row(category, subcategory, confidence, description) ==
    [CategoryAnnotation |-> category, SubCategoryAnnotation |-> subcategory,
     Confidence |-> confidence, TransactionDescription |-> description]

\* descriptions: two that agree on their first twelve characters up to case
\* and differ after them, short ones, an empty one and one of blanks only
LongLower == [k \in 1..13 |-> IF k = 13 THEN "x" ELSE "a"]

LongUpper == [k \in 1..13 |-> IF k = 13 THEN "y" ELSE "A"]

Food == Some(<<"F", "o", "o", "d">>)

Bills == Some(<<"B", "i", "l", "l", "s">>)

Coffee == Some(<<"C", "o", "f", "f", "e", "e">>)

\* the rows of the datasets scored: confidences below, at and above the
\* weighting thresholds, missing, zero, above 1 and negative; categories
\* present, missing and blank
ScoreRows ==
    { Row(Food, Coffee, Some(95), LongLower),
      Row(Food, Coffee, Some(95), LongUpper),
      Row(Bills, Coffee, Some(50), LongUpper),
      Row(Food, Coffee, Some(50), <<"b">>),
      Row(Food, Coffee, Some(70), <<"b", " ">>),
      Row(Food, Coffee, Some(90), <<"x">>),
      Row(None, None, None, LongLower),
      Row(Some(<<" ">>), Some(<<>>), Some(0), <<>>),
      Row(Food, Coffee, Some(150), <<"y">>),
      Row(Bills, Coffee, Some(-20), <<" ", " ">>) }

RECURSIVE ScoreFramesOfLength(_)
ScoreFramesOfLength(n) ==
    IF n = 0 THEN {<<>>}
    ELSE {Append(frame, row) : frame \in ScoreFramesOfLength(n - 1), row \in ScoreRows}

ScoreFrames == UNION {ScoreFramesOfLength(n) : n \in 0..MaxScoreRows}

\* float(confidence) of a numeric cell
float(confidence) == Frac(confidence, 100)

\* `not pd.isna(value) and str(value).strip()` for a text cell / a numeric cell
PresentText(cell) == ~IsNone(cell) /\ strip(str(cell)) # <<>>

PresentNumber(cell) == ~IsNone(cell)

\* CompletenessCalculator._calculate_row_completeness
calculate_row_completeness(row) ==
    LET present_fields ==
            (IF PresentText(row.CategoryAnnotation) THEN 1 ELSE 0)
          + (IF PresentText(row.SubCategoryAnnotation) THEN 1 ELSE 0)
          + (IF PresentNumber(row.Confidence) THEN 1 ELSE 0)
    IN Frac(present_fields, 3)

\* CompletenessCalculator.calculate
CompletenessCalculator(frame) ==
    IF frame = <<>> THEN Zero
    ELSE LET row_scores == [k \in 1..Len(frame) |-> calculate_row_completeness(frame[k])]
         IN FDiv(FSum(row_scores), Frac(Len(row_scores), 1))

\* ConfidenceCalculator._calculate_row_confidence
calculate_row_confidence(row) ==
    IF IsNone(row.Confidence) THEN Zero
    ELSE LET conf_value == float(row.Confidence[1])
         IN IF conf_value = Zero THEN Zero
            ELSE FMax(Zero, FMin(One, conf_value))

\* variant of the weight rule that gives a score of exactly 0.70 the weight 3
confidence_weight_low_inclusive(score) ==
    IF ~FLess(Frac(70, 100), score) THEN 3
    ELSE IF ~FLess(Frac(90, 100), score) THEN 2
    ELSE 1

\* the weight of one score in ConfidenceCalculator._apply_confidence_weighting
confidence_weight(score) ==
    IF FLess(score, Frac(70, 100)) THEN 3
    ELSE IF ~FLess(Frac(90, 100), score) THEN 2
    ELSE 1

\* ConfidenceCalculator._apply_confidence_weighting
apply_confidence_weighting(scores) ==
    IF scores = <<>> THEN Zero
    ELSE LET weighted_sum == FSum([k \in 1..Len(scores) |->
                                      FMul(scores[k], Frac(confidence_weight(scores[k]), 1))])
             total_weight == FSum([k \in 1..Len(scores) |->
                                      Frac(confidence_weight(scores[k]), 1)])
         IN IF FLess(Zero, total_weight) THEN FDiv(weighted_sum, total_weight) ELSE Zero

\* ConfidenceCalculator.calculate
ConfidenceCalculator(frame) ==
    IF frame = <<>> THEN Zero
    ELSE LET scores == [k \in 1..Len(frame) |-> calculate_row_confidence(frame[k])]
             Valid(score) == FLess(Zero, score)
             valid_scores == SelectSeq(scores, Valid)
         IN IF valid_scores = <<>> THEN Zero
            ELSE apply_confidence_weighting(valid_scores)

\* prefix_length of ConsistencyCalculator._group_by_description_prefix
PrefixLength == 12

\* the group key of a row: desc[:prefix_length].upper() of the stripped description
prefix_of(row) == upper(Slice(strip(row.TransactionDescription), PrefixLength))

\* ConsistencyCalculator._group_by_description_prefix: the groups, each the
\* set of positions of its rows; only groups of more than one row are returned
group_by_description_prefix(frame) ==
    LET described == {k \in 1..Len(frame) : strip(frame[k].TransactionDescription) # <<>>}
        groups == {{k \in described : prefix_of(frame[k]) = prefix_of(frame[j])} :
                      j \in described}
    IN {rows \in groups : Cardinality(rows) > 1}

\* ConsistencyCalculator._is_group_consistent
is_group_consistent(frame, rows) ==
    IF Cardinality(rows) < 2 THEN TRUE
    ELSE LET subcategories ==
                 {<<strip(str(frame[k].CategoryAnnotation)),
                    strip(str(frame[k].SubCategoryAnnotation))>> :
                     k \in {j \in rows : /\ strip(str(frame[j].CategoryAnnotation)) # <<>>
                                         /\ strip(str(frame[j].SubCategoryAnnotation)) # <<>>}}
         IN Cardinality(subcategories) = 1

\* ConsistencyCalculator.calculate
ConsistencyCalculator(frame) ==
    IF frame = <<>> THEN Zero
    ELSE LET description_groups == group_by_description_prefix(frame)
             consistent_groups ==
                 Cardinality({rows \in description_groups : is_group_consistent(frame, rows)})
             total_groups == Cardinality(description_groups)
         IN IF description_groups = {} THEN Zero
            ELSE Frac(consistent_groups, total_groups)

QualityMetrics(completeness, confidence, consistency, overall_quality_index) ==
    [completeness |-> completeness, confidence |-> confidence,
     consistency |-> consistency, overall_quality_index |-> overall_quality_index]

\* a weight given in ten-thousandths
Weight(w) == Frac(w, 10000)

\* DefaultQualityCalculator.__init__: whether the weights pass
\* `abs(total_weight - 1.0) > 0.001` without the ValueError
WeightsAccepted(weights) ==
    LET total_weight == FSum([k \in 1..3 |-> Weight(weights[k])])
        distance == FAdd(total_weight, Frac(-1, 1))
    IN ~FLess(Frac(1, 1000), Frac(Abs(distance.num), distance.den))

\* variant of the combination that takes the plain mean of the dimensions
DefaultCalculate_unweighted(frame, weights) ==
    IF frame = <<>> THEN QualityMetrics(Zero, Zero, Zero, Zero)
    ELSE LET completeness == CompletenessCalculator(frame)
             confidence == ConfidenceCalculator(frame)
             consistency == ConsistencyCalculator(frame)
         IN QualityMetrics(completeness, confidence, consistency,
                           FDiv(FSum(<<completeness, confidence, consistency>>), Frac(3, 1)))

\* DefaultQualityCalculator.calculate
DefaultCalculate(frame, weights) ==
    IF frame = <<>> THEN QualityMetrics(Zero, Zero, Zero, Zero)
    ELSE LET completeness == CompletenessCalculator(frame)
             confidence == ConfidenceCalculator(frame)
             consistency == ConsistencyCalculator(frame)
             overall_quality_index ==
                 FAdd(FAdd(FMul(completeness, Weight(weights[1])),
                           FMul(confidence, Weight(weights[2]))),
                      FMul(consistency, Weight(weights[3])))
         IN QualityMetrics(completeness, confidence, consistency, overall_quality_index)

\* SimpleQualityCalculator._calculate_row_confidence_score
calculate_row_confidence_score(row) ==
    IF IsNone(row.CategoryAnnotation) \/ IsNone(row.SubCategoryAnnotation)
          \/ IsNone(row.Confidence) THEN Zero
    ELSE IF strip(str(row.CategoryAnnotation)) = <<>>
              \/ strip(str(row.SubCategoryAnnotation)) = <<>> THEN Zero
    ELSE LET confidence == float(row.Confidence[1])
         IN IF confidence = Zero THEN Zero ELSE confidence

\* variant of the simple strategy that averages over the non-zero row scores only
SimpleCalculate_over_scored_rows(frame) ==
    IF frame = <<>> THEN QualityMetrics(Zero, Zero, Zero, Zero)
    ELSE LET row_scores == [k \in 1..Len(frame) |-> calculate_row_confidence_score(frame[k])]
             Scored(score) == score # Zero
             scored == SelectSeq(row_scores, Scored)
             quality_index == IF scored = <<>> THEN Zero
                              ELSE FDiv(FSum(scored), Frac(Len(scored), 1))
         IN QualityMetrics(Zero, quality_index, Zero, quality_index)

\* SimpleQualityCalculator.calculate
SimpleCalculate(frame) ==
    IF frame = <<>> THEN QualityMetrics(Zero, Zero, Zero, Zero)
    ELSE LET row_scores == [k \in 1..Len(frame) |-> calculate_row_confidence_score(frame[k])]
             quality_index == FDiv(FSum(row_scores), Frac(Len(row_scores), 1))
         IN QualityMetrics(Zero, quality_index, Zero, quality_index)

\* the weights handed to DefaultQualityCalculator, in ten-thousandths: the
\* defaults, another split of 1.0, a sum within the tolerance, a split with a
\* negative weight, and sums above and below 1.0 beyond the tolerance
WeightConfigs ==
    { <<3000, 5000, 2000>>, <<5000, 3000, 2000>>, <<3005, 5000, 2000>>,
      <<-5000, 13000, 2000>>, <<4000, 5000, 2000>>, <<3000, 5000, 1000>> }

CalcInit ==
    /\ RepositoryIdle
    /\ PipelineIdle
    /\ CollectorIdle
    /\ usedIds = {}
    /\ collector = None
    /\ clock = 1
    /\ qa = QaIdle
    /\ ai = AiIdle
    /\ calc = CalcIdle

\* DefaultQualityCalculator(completeness_weight=, confidence_weight=, consistency_weight=)
NewDefault(weights) ==
    /\ ~calc.built
    /\ ~calc.raised
    /\ calc' = IF WeightsAccepted(weights)
               THEN [calc EXCEPT !.built = TRUE, !.strategy = "default", !.weights = weights]
               ELSE [calc EXCEPT !.raised = TRUE, !.weights = weights]
    /\ UNCHANGED <<repoVars, pipeVars, collVars, qa, ai>>

\* SimpleQualityCalculator()
NewSimple ==
    /\ ~calc.built
    /\ ~calc.raised
    /\ calc' = [calc EXCEPT !.built = TRUE, !.strategy = "simple"]
    /\ UNCHANGED <<repoVars, pipeVars, collVars, qa, ai>>

\* calculator.calculate(df); a calculator keeps nothing between calls, so one
\* call per calculator covers them all
Calculate(frame) ==
    /\ calc.built
    /\ IsNone(calc.metrics)
    /\ calc' = [calc EXCEPT !.df = frame,
                            !.metrics = IF calc.strategy = "default"
                                        THEN Some(DefaultCalculate(frame, calc.weights))
                                        ELSE Some(SimpleCalculate(frame))]
    /\ UNCHANGED <<repoVars, pipeVars, collVars, qa, ai>>

CalcNext ==
    \/ \E weights \in WeightConfigs : NewDefault(weights)
    \/ NewSimple
    \/ \E frame \in ScoreFrames : Calculate(frame)

SpecCalc == CalcInit /\ [][CalcNext]_vars


(* ================= claims: quality calculators ========================== *)
\* the sum of the three weights handed to the constructor, in ten-thousandths
TotalWeight == calc.weights[1] + calc.weights[2] + calc.weights[3]

\* C21: constructing DefaultQualityCalculator fails, and yields no
\* calculator, exactly when the three weights sum to 1.0 off by more than
\* 0.001; a constructed one gives, for a non-empty dataset, an overall index
\* of completeness*w_completeness + confidence*w_confidence +
\* consistency*w_consistency, and for an empty dataset four zeros.
C21_WeightedComposite ==
    /\ calc.raised => ~calc.built /\ IsNone(calc.metrics) /\ Abs(TotalWeight - 10000) > 10
    /\ (calc.built /\ calc.strategy = "default") => Abs(TotalWeight - 10000) <= 10
    /\ (calc.strategy = "default" /\ ~IsNone(calc.metrics)) =>
          LET m == calc.metrics[1]
          IN IF calc.df = <<>>
             THEN m = QualityMetrics(Zero, Zero, Zero, Zero)
             ELSE /\ m.completeness = CompletenessCalculator(calc.df)
                  /\ m.confidence = ConfidenceCalculator(calc.df)
                  /\ m.consistency = ConsistencyCalculator(calc.df)
                  /\ m.overall_quality_index =
                        FSum(<<FMul(m.completeness, Weight(calc.weights[1])),
                               FMul(m.confidence, Weight(calc.weights[2])),
                               FMul(m.consistency, Weight(calc.weights[3]))>>)

\* a calculator with unequal weights has scored a dataset whose three
\* dimensions differ
C21_Witness ==
    /\ calc.strategy = "default"
    /\ calc.weights = <<5000, 3000, 2000>>
    /\ ~IsNone(calc.metrics)
    /\ Len(calc.df) = 2
    /\ calc.metrics[1].completeness # calc.metrics[1].confidence
    /\ calc.metrics[1].confidence # calc.metrics[1].consistency
    /\ calc.metrics[1].consistency = One

\* the confidence cells of a dataset that hold a value, in hundredths, in row order
RECURSIVE ConfidencesOf(_)
ConfidencesOf(frame) ==
    IF frame = <<>> THEN <<>>
    ELSE (IF IsNone(Head(frame).Confidence) THEN <<>> ELSE <<Head(frame).Confidence[1]>>)
         \o ConfidencesOf(Tail(frame))

\* the weight the claim gives a confidence in hundredths
WeightOf(c) == IF c < 70 THEN 3 ELSE IF c <= 90 THEN 2 ELSE 1

RECURSIVE SumOfWeights(_)
SumOfWeights(cs) == IF cs = <<>> THEN 0 ELSE WeightOf(Head(cs)) + SumOfWeights(Tail(cs))

RECURSIVE SumOfWeighted(_)
SumOfWeighted(cs) ==
    IF cs = <<>> THEN 0 ELSE Head(cs) * WeightOf(Head(cs)) + SumOfWeighted(Tail(cs))

\* sum(score*weight)/sum(weight) over confidences in hundredths, 0.0 for none
WeightedMean(cs) == IF cs = <<>> THEN Zero ELSE Frac(SumOfWeighted(cs), 100 * SumOfWeights(cs))

NonZero(c) == c # 0

IsPositive(c) == c > 0

\* a confidence above 1.0 counts as 1.0
Clipped(cs) == [k \in 1..Len(cs) |-> IF cs[k] > 100 THEN 100 ELSE cs[k]]

\* C22 (as claimed): the confidence score is sum(score*weight)/sum(weight)
\* over the rows whose confidence is present and non-zero, each scoring its
\* confidence, with weight 3 below 0.70, 2 from 0.70 to 0.90 and 1 above 0.90;
\* it is 0.0 when there is no such row, and c when all such rows hold c.
C22_MeanOverNonZero ==
    (calc.strategy = "default" /\ ~IsNone(calc.metrics)) =>
        LET valid == SelectSeq(ConfidencesOf(calc.df), NonZero)
        IN /\ calc.metrics[1].confidence = WeightedMean(valid)
           /\ \A c \in {-20, 50, 70, 90, 95, 150} :
                 (valid # <<>> /\ \A k \in 1..Len(valid) : valid[k] = c)
                    => calc.metrics[1].confidence = Frac(c, 100)

\* C22 (amended): the confidence score is sum(score*weight)/sum(weight) over
\* the rows whose confidence is present and greater than zero, each scoring
\* its confidence capped at 1.0, with weight 3 below 0.70, 2 from 0.70 to 0.90
\* and 1 above 0.90; it is 0.0 when there is no such row (missing, zero and
\* negative confidences enter neither sum), and c when all such rows score c.
C22_MeanOverPositiveClipped ==
    (calc.strategy = "default" /\ ~IsNone(calc.metrics)) =>
        LET valid == Clipped(SelectSeq(ConfidencesOf(calc.df), IsPositive))
        IN /\ calc.metrics[1].confidence = WeightedMean(valid)
           /\ \A c \in {50, 70, 90, 95, 100} :
                 (valid # <<>> /\ \A k \in 1..Len(valid) : valid[k] = c)
                    => calc.metrics[1].confidence = Frac(c, 100)

\* a dataset with a confidence at a threshold and one above 1.0 has been scored
C22_Witness ==
    /\ calc.strategy = "default"
    /\ ~IsNone(calc.metrics)
    /\ ConfidencesOf(calc.df) = <<70, 150>>
    /\ calc.metrics[1].confidence = Frac(2 * 70 + 100, 300)

\* the groups of a dataset as the claim counts them: the rows with a
\* non-blank description, by prefix, groups of a single row included
GroupsWithSingles(frame) ==
    LET described == {k \in 1..Len(frame) : strip(frame[k].TransactionDescription) # <<>>}
    IN {{k \in described : prefix_of(frame[k]) = prefix_of(frame[j])} : j \in described}

\* C23 (as claimed): rows are grouped by the case-folded first characters of
\* their description; a group of one row counts and is consistent, a larger
\* group is consistent iff its rows share exactly one (category, subcategory)
\* pair; the score is consistent groups / total groups, so 1.0 when every
\* prefix occurs once, and 0.0 for an empty dataset.
C23_SinglesCountAsConsistent ==
    (calc.strategy = "default" /\ ~IsNone(calc.metrics)) =>
        LET groups == GroupsWithSingles(calc.df)
            consistent == {rows \in groups : is_group_consistent(calc.df, rows)}
        IN /\ calc.df = <<>> => calc.metrics[1].consistency = Zero
           /\ groups # {} =>
                 calc.metrics[1].consistency = Frac(Cardinality(consistent), Cardinality(groups))
           /\ (groups # {} /\ \A rows \in groups : Cardinality(rows) = 1) =>
                 calc.metrics[1].consistency = One

\* whether a row has category, subcategory and confidence, the texts
\* non-blank and the confidence non-zero
FullyAnnotated(row) ==
    /\ ~IsNone(row.CategoryAnnotation) /\ strip(row.CategoryAnnotation[1]) # <<>>
    /\ ~IsNone(row.SubCategoryAnnotation) /\ strip(row.SubCategoryAnnotation[1]) # <<>>
    /\ ~IsNone(row.Confidence) /\ row.Confidence[1] # 0

\* the sum, in hundredths, of the raw confidences of the fully annotated rows
RECURSIVE RawConfidenceSum(_)
RawConfidenceSum(frame) ==
    IF frame = <<>> THEN 0
    ELSE (IF FullyAnnotated(Head(frame)) THEN Head(frame).Confidence[1] ELSE 0)
         + RawConfidenceSum(Tail(frame))

InUnitRange(score) == ~FLess(score, Zero) /\ ~FLess(One, score)

\* C25 (as claimed): for every dataset and every accepted weight
\* configuration, each dimension calculator's result and each field of the
\* QualityMetrics returned by either calculator lies between 0 and 1.
C25_ScoresInUnitRange ==
    ~IsNone(calc.metrics) =>
        /\ InUnitRange(CompletenessCalculator(calc.df))
        /\ InUnitRange(ConfidenceCalculator(calc.df))
        /\ InUnitRange(ConsistencyCalculator(calc.df))
        /\ InUnitRange(calc.metrics[1].completeness)
        /\ InUnitRange(calc.metrics[1].confidence)
        /\ InUnitRange(calc.metrics[1].consistency)
        /\ InUnitRange(calc.metrics[1].overall_quality_index)

====
